---- MODULE Spec2Model ----
(***************************************************************************)
(* Model of src/help.py: concatenate_files(directories, output_path,       *)
(* encoding) walks a list of directories with os.walk, reads every file    *)
(* in text mode and appends a framed section per file to one output file.  *)
(*                                                                         *)
(* Text is a sequence of code points.  A file on disk is a sequence of     *)
(* bytes (numbers 0..255); the encoding parameter says how the two are     *)
(* converted.  Paths are sequences of names, a name is a sequence of       *)
(* characters.  The platform is POSIX (os.linesep = "\n") and little       *)
(* endian.  File names that are not valid UTF-8 reach the program with a   *)
(* lone surrogate in them (os.fsdecode).  The output stream encodes        *)
(* strictly and raises UnicodeEncodeError for what it cannot encode;       *)
(* sys.stdout has the encoding and the error handler the interpreter gave  *)
(* it ("strict", or "surrogateescape" in the C/POSIX locale).              *)
(***************************************************************************)
EXTENDS Naturals, Sequences, FiniteSets

LF == 10
CR == 13
SLASH == 47
SPACE == 32

(* ---------------- bounds ---------------- *)
MaxRoots == 2
MaxRuns == 2

(* ---------------- the filesystem the runs see ---------------- *)
NameX == <<120>>
NameY == <<121>>
NameS == <<83>>
NameO == <<111>>
(* The name os.fsdecode gives the file name b"\xff": a lone surrogate. *)
NameZ == <<56575>>

DirA == <<<<65>>>>
DirS == <<<<65>>, NameS>>
DirE == <<<<69>>>>
DirM == <<<<77>>>>

FileAX == Append(DirA, NameX)
FileAY == Append(DirA, NameY)
FileSX == Append(DirS, NameX)

Dirs == {DirA, DirS, DirE}
DataFiles == {FileAX, FileAY, FileSX}

(* A root is a directory, or A/y: a plain file or a dangling link. *)
RootCandidates == {DirA, DirS, DirE, FileAY}
OutputCandidates == {<<NameO>>, Append(DirA, NameO), Append(DirE, NameO), Append(DirM, NameO),
                     Append(DirS, NameZ)}

Cwd == << >>

Parent(p) == SubSeq(p, 1, Len(p) - 1)
Basename(p) == p[Len(p)]

(* What open(filepath, "r") meets: a regular file with bytes, or an error. *)
OkFile(b) == [kind |-> "ok", bytes |-> b]
ErrFile(k) == [kind |-> k, bytes |-> << >>]
(* "a": text in utf-8, truncated data in utf-16. *)
Text == <<97>>
(* "a\r\n\r" in utf-8; in utf-16 two characters without a byte order mark. *)
TextWithCarriageReturns == <<97, CR, LF, CR>>
(* "a\r" in utf-16 with its byte order mark; 0xFF is no utf-8. *)
Utf16TextWithMark == <<255, 254, 97, 0, CR, 0>>
(* "b": text in utf-8, truncated data in utf-16. *)
TextOfSecondFile == <<98>>

(* The states each file of the tree is taken from. *)
FileStates(p) ==
  IF p = FileAX
    THEN {OkFile(Text), OkFile(Utf16TextWithMark), ErrFile("PermissionError")}
  ELSE IF p = FileAY
    THEN {OkFile(TextOfSecondFile), ErrFile("FileNotFoundError")}
  ELSE {OkFile(TextWithCarriageReturns), ErrFile("IsADirectoryError")}

AllFileStates == UNION {FileStates(p) : p \in DataFiles}

(* The two buffers behind open(output_path, "w"): the text layer hands its
   pending text down in chunks of chunk_size, the binary layer below holds up
   to buffer_size before it writes to the disk.  CPython 3.11 uses 8192 and
   the block size of the filesystem (4096); the small pair keeps the same
   ratio and makes flushes happen on short texts. *)
ChunkSmall == 8
BufferSmall == 4
CHUNK_SIZE == 8192
BLKSIZE == 4096
Bufferings == {[chunk |-> ChunkSmall, buffer |-> BufferSmall],
               [chunk |-> CHUNK_SIZE, buffer |-> BLKSIZE]}

VARIABLES
  directories, output_path, encoding, stdout, output_index, chunk_size, buffer_size, fs,
  run, pc, outfile, out, disk, buffered, ri, files, filepath, content,
  err, printed, closes, opened, scanned, secs, written, results

config == <<directories, output_path, encoding, stdout, output_index, chunk_size, buffer_size, fs>>
vars == <<directories, output_path, encoding, stdout, output_index, chunk_size, buffer_size, fs,
          run, pc, outfile, out, disk, buffered, ri, files, filepath, content,
          err, printed, closes, opened, scanned, secs, written, results>>

(* ---------------- text conversions ---------------- *)
RECURSIVE Flatten(_)
Flatten(ss) ==
  IF ss = << >> THEN << >>
  ELSE IF Len(ss) = 1 THEN ss[1]
  ELSE LET half == Len(ss) \div 2
       IN Flatten(SubSeq(ss, 1, half)) \o Flatten(SubSeq(ss, half + 1, Len(ss)))

(* ---------------- the codecs of the encoding parameter ---------------- *)
(* Bytes are numbers 0..255, characters are code points. *)
Failed == [ok |-> FALSE, text |-> << >>]

Continuation(b) == 128 <= b /\ b <= 191

(* The number of bytes of the UTF-8 sequence b starts with, 0 when b does not
   start with a valid one (overlong forms, surrogates and code points past
   U+10FFFF are invalid). *)
Utf8Length(b) ==
  IF b[1] < 128 THEN 1
  ELSE IF 194 <= b[1] /\ b[1] <= 223
    THEN IF Len(b) >= 2 /\ Continuation(b[2]) THEN 2 ELSE 0
  ELSE IF 224 <= b[1] /\ b[1] <= 239
    THEN IF /\ Len(b) >= 3 /\ Continuation(b[2]) /\ Continuation(b[3])
            /\ (b[1] = 224 => b[2] >= 160)
            /\ (b[1] = 237 => b[2] <= 159)
         THEN 3 ELSE 0
  ELSE IF 240 <= b[1] /\ b[1] <= 244
    THEN IF /\ Len(b) >= 4 /\ Continuation(b[2]) /\ Continuation(b[3]) /\ Continuation(b[4])
            /\ (b[1] = 240 => b[2] >= 144)
            /\ (b[1] = 244 => b[2] <= 143)
         THEN 4 ELSE 0
  ELSE 0

Utf8CodePoint(b, n) ==
  IF n = 1 THEN b[1]
  ELSE IF n = 2 THEN (b[1] - 192) * 64 + (b[2] - 128)
  ELSE IF n = 3 THEN (b[1] - 224) * 4096 + (b[2] - 128) * 64 + (b[3] - 128)
  ELSE (b[1] - 240) * 262144 + (b[2] - 128) * 4096 + (b[3] - 128) * 64 + (b[4] - 128)

(* No character: marks the places of a sequence that hold no character. *)
NoChar == 1114112

Characters(marked) == SelectSeq(marked, LAMBDA c : c # NoChar)

(* The UTF-8 sequence that starts at place i of b, cut to the longest form. *)
Utf8At(b, i) == SubSeq(b, i, IF i + 3 <= Len(b) THEN i + 3 ELSE Len(b))

(* Every byte that is no continuation byte starts a sequence, which has to
   be valid; every continuation byte has to lie within the sequence of one
   of the three bytes before it. *)
Utf8Decode(b) ==
  IF \A i \in DOMAIN b :
       IF Continuation(b[i])
         THEN \E j \in 1..(i - 1) :
                i - j <= 3 /\ ~Continuation(b[j]) /\ Utf8Length(Utf8At(b, j)) > i - j
         ELSE Utf8Length(Utf8At(b, i)) # 0
    THEN [ok |-> TRUE,
          text |-> Characters([i \in DOMAIN b |->
                     IF Continuation(b[i]) THEN NoChar
                     ELSE Utf8CodePoint(Utf8At(b, i), Utf8Length(Utf8At(b, i)))])]
    ELSE Failed

(* A character that no encoder takes: a lone surrogate. *)
Surrogate(c) == 55296 <= c /\ c <= 57343

NotEncoded == [ok |-> FALSE, bytes |-> << >>]

Utf8EncodeChar(c) ==
  IF Surrogate(c) THEN NotEncoded
  ELSE [ok |-> TRUE,
        bytes |->
          IF c < 128 THEN <<c>>
          ELSE IF c < 2048 THEN <<192 + (c \div 64), 128 + (c % 64)>>
          ELSE IF c < 65536
            THEN <<224 + (c \div 4096), 128 + ((c \div 64) % 64), 128 + (c % 64)>>
          ELSE <<240 + (c \div 262144), 128 + ((c \div 4096) % 64), 128 + ((c \div 64) % 64),
                 128 + (c % 64)>>]

HighSurrogate(u) == 55296 <= u /\ u <= 56319
LowSurrogate(u) == 56320 <= u /\ u <= 57343

(* The 16-bit units of an even number of bytes, little or big endian. *)
Utf16Units(b, big) ==
  [i \in 1..(Len(b) \div 2) |->
     IF big THEN b[2 * i - 1] * 256 + b[2 * i] ELSE b[2 * i] * 256 + b[2 * i - 1]]

(* A high surrogate has to be followed by a low one, and a low surrogate has
   to follow a high one; the two are one character. *)
Utf16Text(u) ==
  IF \A i \in DOMAIN u :
       /\ HighSurrogate(u[i]) => (i < Len(u) /\ LowSurrogate(u[i + 1]))
       /\ LowSurrogate(u[i]) => (i > 1 /\ HighSurrogate(u[i - 1]))
    THEN [ok |-> TRUE,
          text |-> Characters([i \in DOMAIN u |->
                     IF LowSurrogate(u[i]) THEN NoChar
                     ELSE IF HighSurrogate(u[i])
                       THEN 65536 + (u[i] - 55296) * 1024 + (u[i + 1] - 56320)
                     ELSE u[i]])]
    ELSE Failed

BOM == <<255, 254>>
BOM_BE == <<254, 255>>

(* "utf-16" reads a byte order mark when there is one and is little endian
   without it; an odd number of bytes is truncated data. *)
Utf16Decode(b) ==
  IF Len(b) % 2 = 1 THEN Failed
  ELSE IF Len(b) >= 2 /\ SubSeq(b, 1, 2) = BOM
    THEN Utf16Text(Utf16Units(SubSeq(b, 3, Len(b)), FALSE))
  ELSE IF Len(b) >= 2 /\ SubSeq(b, 1, 2) = BOM_BE
    THEN Utf16Text(Utf16Units(SubSeq(b, 3, Len(b)), TRUE))
  ELSE Utf16Text(Utf16Units(b, FALSE))

Utf16EncodeChar(c) ==
  IF Surrogate(c) THEN NotEncoded
  ELSE [ok |-> TRUE,
        bytes |->
          IF c < 65536 THEN <<c % 256, c \div 256>>
          ELSE LET hi == 55296 + ((c - 65536) \div 1024)
                   lo == 56320 + ((c - 65536) % 1024)
               IN <<hi % 256, hi \div 256, lo % 256, lo \div 256>>]

AsciiEncodeChar(c) == IF c < 128 THEN [ok |-> TRUE, bytes |-> <<c>>] ELSE NotEncoded

Encodings == {"utf-8", "utf-16"}

(* bytes.decode(enc): the text, or the failure that is UnicodeDecodeError. *)
Decode(enc, b) == IF enc = "utf-16" THEN Utf16Decode(b) ELSE Utf8Decode(b)

(* infile.read(): the decoder of a text stream.  It decodes like
   bytes.decode, but the "utf-16" stream decoder raises UnicodeError (which is
   not a UnicodeDecodeError) for decodable bytes that do not start with a
   byte order mark. *)
StreamDecode(enc, b) ==
  IF ~Decode(enc, b).ok THEN [error |-> "UnicodeDecodeError", text |-> << >>]
  ELSE IF enc = "utf-16" /\ Len(b) >= 2 /\ SubSeq(b, 1, 2) \notin {BOM, BOM_BE}
    THEN [error |-> "UnicodeError", text |-> << >>]
  ELSE [error |-> "none", text |-> Decode(enc, b).text]

EncodeChar(enc, c) ==
  IF enc = "utf-16" THEN Utf16EncodeChar(c)
  ELSE IF enc = "ascii" THEN AsciiEncodeChar(c)
  ELSE Utf8EncodeChar(c)

(* The bytes of the characters of s, without a byte order mark; the encoders
   are strict: one character they do not take fails the whole string
   (UnicodeEncodeError). *)
EncodeChars(enc, s) ==
  LET chars == [i \in DOMAIN s |-> EncodeChar(enc, s[i])] IN
  IF \A i \in DOMAIN s : chars[i].ok
    THEN [ok |-> TRUE, bytes |-> Flatten([i \in DOMAIN s |-> chars[i].bytes])]
    ELSE NotEncoded

(* What the encoder of a stream gives for s: "utf-16" puts the byte order
   mark before the first string of the stream. *)
Encode(enc, s, first) ==
  LET chars == EncodeChars(enc, s) IN
  IF chars.ok
    THEN [ok |-> TRUE,
          bytes |-> (IF enc = "utf-16" /\ first THEN BOM ELSE << >>) \o chars.bytes]
    ELSE NotEncoded

(* Universal-newline translation of text mode reads: \r\n and \r become \n. *)
TranslateNewlines(s) ==
  Characters([i \in DOMAIN s |->
    IF s[i] = CR THEN LF
    ELSE IF s[i] = LF /\ i > 1 /\ s[i - 1] = CR THEN NoChar
    ELSE s[i]])

(* Whether infile.read() decodes the bytes without an exception. *)
Decodable(bytes) == StreamDecode(encoding, bytes).error = "none"

(* infile.read() of a text-mode file opened with the encoding. *)
Read(bytes) == TranslateNewlines(StreamDecode(encoding, bytes).text)

(* The state of the file at path p while the output handle is open. *)
FileAt(p) ==
  IF p = output_path THEN OkFile(disk)
  ELSE IF p \in DataFiles THEN fs[p]
  ELSE ErrFile("FileNotFoundError")

(* open(output_path, "w") succeeds when the parent directory exists. *)
Openable(p) == Parent(p) \in Dirs \cup {Cwd}

(* ---------------- os.walk ---------------- *)
SubDirs(d) == IF d = DirA THEN <<NameS>> ELSE << >>

DataNames(d) ==
  IF d = DirA THEN <<NameX, NameY>>
  ELSE IF d = DirS THEN <<NameX>>
  ELSE << >>

(* The file names scandir reports in d once the output file exists.  The
   order is the filesystem's and is the same on every walk: output_index is
   the number of other files of its directory listed before the output. *)
FileNames(d) ==
  IF Parent(output_path) = d
    THEN SubSeq(DataNames(d), 1, output_index) \o <<Basename(output_path)>>
           \o SubSeq(DataNames(d), output_index + 1, Len(DataNames(d)))
    ELSE DataNames(d)

RECURSIVE JoinAll(_, _)
JoinAll(root, names) ==
  IF names = << >> THEN << >>
  ELSE <<[root |-> root, filename |-> Head(names)]>> \o JoinAll(root, Tail(names))

(* All (root, filename) pairs os.walk(top) yields, top-down; a top that is
   missing or not a directory yields nothing (scandir errors are ignored). *)
RECURSIVE Walk(_)
RECURSIVE WalkAll(_, _)
Walk(top) ==
  IF top \notin Dirs THEN << >>
  ELSE JoinAll(top, FileNames(top)) \o WalkAll(top, SubDirs(top))
WalkAll(top, subs) ==
  IF subs = << >> THEN << >>
  ELSE Walk(Append(top, Head(subs))) \o WalkAll(top, Tail(subs))

Join(root, filename) == Append(root, filename)

(* ---------------- the section format ---------------- *)
Header(filename) == <<LF, LF, SLASH, SLASH, SPACE>> \o filename \o <<LF, LF>>

(* outfile.write(s).  The string is encoded at once ("\n" stays "\n" on
   POSIX); out is the stream of bytes: of it, disk is in the file, the next
   `buffered` bytes are held by the binary layer and the rest is pending in
   the text layer. *)
Encoded(s) == Encode(encoding, s, out = << >>)

Written(s) == out \o Encoded(s).bytes

Pending == Len(out) - Len(disk) - buffered

(* The binary layer takes n bytes: they are kept when they fit in the free
   part of its buffer; otherwise the buffer is written out first and the n
   bytes go to the disk when longer than the buffer, into it when not. *)
Pushed(st, n) ==
  IF n <= buffer_size - st.buffered
    THEN [buffered |-> st.buffered + n, disk |-> st.disk]
  ELSE IF n > buffer_size
    THEN [buffered |-> 0, disk |-> st.disk + st.buffered + n]
  ELSE [buffered |-> n, disk |-> st.disk + st.buffered]

(* The text layer: text pending before the write is handed down when the new
   string would take the pending text over chunk_size; then the string is
   pending, and is handed down at once when chunk_size or more is pending. *)
AfterWrite(s) ==
  LET st0 == [buffered |-> buffered, disk |-> Len(disk)]
      n == Len(Encoded(s).bytes)
      early == Pending > 0 /\ Pending + n > chunk_size
      st1 == IF early THEN Pushed(st0, Pending) ELSE st0
      pending1 == (IF early THEN 0 ELSE Pending) + n
  IN IF pending1 >= chunk_size THEN Pushed(st1, pending1) ELSE st1

Flushed(s) == SubSeq(Written(s), 1, AfterWrite(s).disk)

(* ---------------- the success notification ---------------- *)
CHECK_MARK == 9989

(* " Combined output written to: " *)
COMBINED ==
  <<32, 67, 111, 109, 98, 105, 110, 101, 100, 32, 111, 117, 116, 112, 117, 116, 32,
    119, 114, 105, 116, 116, 101, 110, 32, 116, 111, 58, 32>>

(* The path as the string the caller passed: the names joined by "/". *)
PathText(p) ==
  Flatten([i \in DOMAIN p |-> IF i = 1 THEN p[i] ELSE <<SLASH>> \o p[i]])

Message(p) == <<CHECK_MARK>> \o COMBINED \o PathText(p)

(* What sys.stdout may be: the interpreter gives it the encoding of the
   locale (or of PYTHONIOENCODING) and the error handler "strict", or
   "surrogateescape" in the C/POSIX locale. *)
StdoutEncodings == {"utf-8", "ascii"}
StdoutErrors == {"strict", "surrogateescape"}
StdoutStreams ==
  {[encoding |-> "utf-8", errors |-> "surrogateescape"],
   [encoding |-> "utf-8", errors |-> "strict"],
   [encoding |-> "ascii", errors |-> "strict"]}

(* The characters "surrogateescape" stands for a byte: U+DC80..U+DCFF, which
   os.fsdecode gives for the bytes 0x80..0xFF of a name that is not UTF-8. *)
Escaped(c) == 56448 <= c /\ c <= 56575

(* One character on sys.stdout: the encoder of the stream, and for what it
   does not take the error handler; "surrogateescape" writes the byte an
   escaped character stands for and raises for the others, "strict" raises. *)
StdoutEncodeChar(c) ==
  IF EncodeChar(stdout.encoding, c).ok THEN EncodeChar(stdout.encoding, c)
  ELSE IF stdout.errors = "surrogateescape" /\ Escaped(c)
    THEN [ok |-> TRUE, bytes |-> <<c - 56320>>]
  ELSE NotEncoded

(* The bytes sys.stdout gets for s, or the failure that is
   UnicodeEncodeError. *)
StdoutEncode(s) ==
  LET chars == [i \in DOMAIN s |-> StdoutEncodeChar(s[i])] IN
  IF \A i \in DOMAIN s : chars[i].ok
    THEN [ok |-> TRUE, bytes |-> Flatten([i \in DOMAIN s |-> chars[i].bytes])]
    ELSE NotEncoded

(* print(...) writes the message and then "\n" to sys.stdout. *)
Printable == StdoutEncode(Message(output_path) \o <<LF>>).ok


(* ---------------- initial states ---------------- *)
RootLists == UNION {[1..n -> RootCandidates] : n \in 0..MaxRoots}

Init ==
  /\ directories \in RootLists
  /\ output_path \in OutputCandidates
  /\ encoding \in Encodings
  /\ stdout \in StdoutStreams
  /\ output_index \in 0..Len(DataNames(Parent(output_path)))
  /\ \E b \in Bufferings : chunk_size = b.chunk /\ buffer_size = b.buffer
  /\ fs \in {f \in [DataFiles -> AllFileStates] : \A p \in DataFiles : f[p] \in FileStates(p)}
  /\ run = 1
  /\ pc = "start"
  /\ outfile = "notstarted"
  /\ out = << >>
  /\ disk = << >>
  /\ buffered = 0
  /\ ri = 0
  /\ files = << >>
  /\ filepath = << >>
  /\ content = << >>
  /\ err = "none"
  /\ printed = FALSE
  /\ closes = 0
  /\ opened = << >>
  /\ scanned = << >>
  /\ secs = << >>
  /\ written = 0
  /\ results = << >>

(* ---------------- concatenate_files, step by step ---------------- *)
(* An open in append mode: the old content of the output file stays. *)
OpenOutputAppend ==
  /\ pc = "start"
  /\ Openable(output_path)
  /\ outfile' = "writing"
  /\ out' = disk
  /\ ri' = 1
  /\ pc' = "for_directory"
  /\ UNCHANGED <<config, run, disk, buffered, files, filepath, content, err, printed, closes,
                 opened, scanned, secs, written, results>>

(* line 14: open(output_path, "w") creates or truncates the output file. *)
OpenOutput ==
  /\ pc = "start"
  /\ Openable(output_path)
  /\ outfile' = "writing"
  /\ disk' = << >>
  /\ buffered' = 0
  /\ out' = << >>
  /\ ri' = 1
  /\ pc' = "for_directory"
  /\ UNCHANGED <<config, run, files, filepath, content, err, printed, closes,
                 opened, scanned, secs, written, results>>

(* A failed open that is noticed but does not stop the walk. *)
OpenOutputFailsLate ==
  /\ pc = "start"
  /\ ~Openable(output_path)
  /\ err' = "OutputOpenError"
  /\ ri' = 1
  /\ pc' = "for_directory"
  /\ UNCHANGED <<config, run, outfile, out, disk, buffered, files, filepath, content,
                 printed, closes, opened, scanned, secs, written, results>>

(* line 14: the open fails and the error leaves concatenate_files. *)
OpenOutputFails ==
  /\ pc = "start"
  /\ ~Openable(output_path)
  /\ err' = "OutputOpenError"
  /\ pc' = "raised"
  /\ UNCHANGED <<config, run, outfile, out, disk, buffered, ri, files, filepath, content,
                 printed, closes, opened, scanned, secs, written, results>>

(* A loop that takes the directories from the last to the first. *)
NextDirectoryReversed ==
  /\ pc = "for_directory"
  /\ ri <= Len(directories)
  /\ files' = Walk(directories[Len(directories) + 1 - ri])
  /\ scanned' = Append(scanned, directories[Len(directories) + 1 - ri])
  /\ pc' = "for_filename"
  /\ UNCHANGED <<config, run, outfile, out, disk, buffered, ri, filepath, content, err,
                 printed, closes, opened, secs, written, results>>

(* lines 15-16: the next directory of the list is walked. *)
NextDirectory ==
  /\ pc = "for_directory"
  /\ ri <= Len(directories)
  /\ files' = Walk(directories[ri])
  /\ scanned' = Append(scanned, directories[ri])
  /\ pc' = "for_filename"
  /\ UNCHANGED <<config, run, outfile, out, disk, buffered, ri, filepath, content, err,
                 printed, closes, opened, secs, written, results>>

(* lines 16-17: the walk of the current directory is exhausted. *)
EndOfWalk ==
  /\ pc = "for_filename"
  /\ files = << >>
  /\ ri' = ri + 1
  /\ pc' = "for_directory"
  /\ UNCHANGED <<config, run, outfile, out, disk, buffered, files, filepath, content, err,
                 printed, closes, opened, scanned, secs, written, results>>

Caught == {"UnicodeDecodeError", "PermissionError", "IsADirectoryError"}

(* The exception, if any, that lines 20-21 raise for the file at p. *)
ReadError(p) ==
  LET f == FileAt(p) IN
  IF f.kind # "ok" THEN f.kind
  ELSE StreamDecode(encoding, f.bytes).error

NextPath == Join(Head(files).root, Head(files).filename)

(* lines 18-21: the file is opened, read to the end and closed. *)
ReadFile ==
  /\ pc = "for_filename"
  /\ files # << >>
  /\ ReadError(NextPath) = "none"
  /\ filepath' = NextPath
  /\ content' = Read(FileAt(NextPath).bytes)
  /\ opened' = Append(opened, NextPath)
  /\ secs' = Append(secs, [root |-> ri, path |-> NextPath, content |-> content'])
  /\ files' = Tail(files)
  /\ pc' = "write_header"
  /\ UNCHANGED <<config, run, outfile, out, disk, buffered, ri, err, printed, closes,
                 scanned, written, results>>

(* lines 22-24: a caught exception skips the file. *)
SkipFile ==
  /\ pc = "for_filename"
  /\ files # << >>
  /\ ReadError(NextPath) \in Caught
  /\ filepath' = NextPath
  /\ opened' = Append(opened, NextPath)
  /\ files' = Tail(files)
  /\ UNCHANGED <<config, run, pc, outfile, out, disk, buffered, ri, content, err, printed,
                 closes, scanned, secs, written, results>>

(* An uncaught exception that leaves the output handle open. *)
ReadRaisesNoClose ==
  /\ pc = "for_filename"
  /\ files # << >>
  /\ ReadError(NextPath) \notin Caught \cup {"none"}
  /\ filepath' = NextPath
  /\ opened' = Append(opened, NextPath)
  /\ err' = ReadError(NextPath)
  /\ pc' = "raised"
  /\ UNCHANGED <<config, run, outfile, closes, disk, buffered, out, ri, files, content, printed,
                 scanned, secs, written, results>>

(* lines 20-22 and 14: an exception the except clause does not name leaves
   the loops; the with statement closes the output on the way out. *)
ReadRaises ==
  /\ pc = "for_filename"
  /\ files # << >>
  /\ ReadError(NextPath) \notin Caught \cup {"none"}
  /\ filepath' = NextPath
  /\ opened' = Append(opened, NextPath)
  /\ err' = ReadError(NextPath)
  /\ outfile' = "closed"
  /\ closes' = closes + 1
  /\ disk' = out
  /\ buffered' = 0
  /\ pc' = "raised"
  /\ UNCHANGED <<config, run, out, ri, files, content, printed, scanned, secs, written,
                 results>>

(* The string the write at pc hands to the output stream. *)
WriteText ==
  IF pc = "write_header" THEN Header(Basename(filepath))
  ELSE IF pc = "write_content" THEN content
  ELSE <<LF>>

(* lines 27-29 and 14: a string the encoder does not take (a file name with
   a lone surrogate) raises UnicodeEncodeError outside the try statement;
   nothing of the string is written and the with statement closes the
   output on the way out. *)
WriteRaises ==
  /\ pc \in {"write_header", "write_content", "write_newline"}
  /\ ~Encoded(WriteText).ok
  /\ err' = "UnicodeEncodeError"
  /\ outfile' = "closed"
  /\ closes' = closes + 1
  /\ disk' = out
  /\ buffered' = 0
  /\ pc' = "raised"
  /\ UNCHANGED <<config, run, out, ri, files, filepath, content, printed, opened, scanned,
                 secs, written, results>>

(* line 27 *)
WriteHeader ==
  /\ pc = "write_header"
  /\ Encoded(Header(Basename(filepath))).ok
  /\ out' = Written(Header(Basename(filepath)))
  /\ disk' = Flushed(Header(Basename(filepath)))
  /\ buffered' = AfterWrite(Header(Basename(filepath))).buffered
  /\ pc' = "write_content"
  /\ UNCHANGED <<config, run, outfile, ri, files, filepath, content, err, printed,
                 closes, opened, scanned, secs, written, results>>

(* line 28 *)
WriteContent ==
  /\ pc = "write_content"
  /\ Encoded(content).ok
  /\ out' = Written(content)
  /\ disk' = Flushed(content)
  /\ buffered' = AfterWrite(content).buffered
  /\ pc' = "write_newline"
  /\ UNCHANGED <<config, run, outfile, ri, files, filepath, content, err, printed,
                 closes, opened, scanned, secs, written, results>>

(* line 29: the section of the entry is complete. *)
WriteNewline ==
  /\ pc = "write_newline"
  /\ Encoded(<<LF>>).ok
  /\ out' = Written(<<LF>>)
  /\ disk' = Flushed(<<LF>>)
  /\ buffered' = AfterWrite(<<LF>>).buffered
  /\ written' = written + 1
  /\ pc' = "for_filename"
  /\ UNCHANGED <<config, run, outfile, ri, files, filepath, content, err, printed,
                 closes, opened, scanned, secs, results>>

(* line 14, leaving the with block normally: flush and close. *)
CloseOutput ==
  /\ pc = "for_directory"
  /\ ri > Len(directories)
  /\ outfile' = "closed"
  /\ closes' = closes + 1
  /\ disk' = out
  /\ buffered' = 0
  /\ pc' = "closed"
  /\ UNCHANGED <<config, run, out, ri, files, filepath, content, err, printed,
                 opened, scanned, secs, written, results>>

(* line 31: sys.stdout does not take the message (the check mark on an ascii
   stream, or a lone surrogate of the output path on a strict stream):
   UnicodeEncodeError leaves concatenate_files and nothing is printed. *)
PrintRaises ==
  /\ pc = "closed"
  /\ ~Printable
  /\ err' = "UnicodeEncodeError"
  /\ pc' = "raised"
  /\ UNCHANGED <<config, run, outfile, out, disk, buffered, ri, files, filepath, content,
                 printed, closes, opened, scanned, secs, written, results>>

(* line 31 *)
PrintSuccess ==
  /\ pc = "closed"
  /\ Printable
  /\ printed' = TRUE
  /\ pc' = "done"
  /\ UNCHANGED <<config, run, outfile, out, disk, buffered, ri, files, filepath, content,
                 err, closes, opened, scanned, secs, written, results>>

Terminated == pc \in {"done", "raised"}

(* concatenate_files is called again with the same arguments. *)
Rerun ==
  /\ Terminated
  /\ run < MaxRuns
  /\ results' = Append(results, [disk |-> disk, err |-> err, printed |-> printed, secs |-> secs])
  /\ run' = run + 1
  /\ pc' = "start"
  /\ outfile' = "notstarted"
  /\ out' = << >>
  /\ ri' = 0
  /\ files' = << >>
  /\ filepath' = << >>
  /\ content' = << >>
  /\ err' = "none"
  /\ printed' = FALSE
  /\ closes' = 0
  /\ opened' = << >>
  /\ scanned' = << >>
  /\ secs' = << >>
  /\ written' = 0
  /\ UNCHANGED <<config, disk, buffered>>

Next ==
  \/ OpenOutput
  \/ OpenOutputFails
  \/ NextDirectory
  \/ EndOfWalk
  \/ ReadFile
  \/ SkipFile
  \/ ReadRaises
  \/ WriteRaises
  \/ WriteHeader
  \/ WriteContent
  \/ WriteNewline
  \/ CloseOutput
  \/ PrintRaises
  \/ PrintSuccess
  \/ Rerun

Spec == Init /\ [][Next]_vars

TypeOK ==
  /\ pc \in {"start", "for_directory", "for_filename", "write_header", "write_content",
             "write_newline", "closed", "done", "raised"}
  /\ outfile \in {"notstarted", "writing", "closed"}
  /\ run \in 1..MaxRuns
  /\ written \in 0..Len(secs)
  /\ stdout \in [encoding : StdoutEncodings, errors : StdoutErrors]


(* ======================= properties ======================= *)
Last(q) == q[Len(q)]

(* secs holds the entries read successfully, in the order they were read;
   the first `written` of them have their section in the stream in full. *)
Complete == SubSeq(secs, 1, written)

(* The text of one section, as the output format prescribes it ("a blank
   line" being one newline character). *)
SectionText(sec) ==
  <<LF, LF>> \o <<SLASH, SLASH, SPACE>> \o Basename(sec.path) \o <<LF>> \o <<LF>>
    \o sec.content \o <<LF>>

SectionTexts(q) == Flatten([i \in DOMAIN q |-> SectionText(q[i])])

(* Whether text s is what the bytes of the stream hold. *)
StreamHolds(bytes, s) ==
  LET encoded == Encode(encoding, s, TRUE) IN
  IF s = << >> THEN bytes = << >> ELSE encoded.ok /\ bytes = encoded.bytes

(* The text of a file as the encoding decodes it, newlines untouched. *)
DecodedText(bytes) == Decode(encoding, bytes).text

InSection == pc \in {"write_header", "write_content", "write_newline"}

(* The part of the section in progress that has been written. *)
Progress ==
  IF pc = "write_content" THEN Header(Basename(filepath))
  ELSE IF pc = "write_newline" THEN Header(Basename(filepath)) \o content
  ELSE << >>

IsPrefix(a, b) == Len(a) <= Len(b) /\ SubSeq(b, 1, Len(a)) = a

(* d is a directory and p lies somewhere below it. *)
Under(p, d) == d \in Dirs /\ Len(d) < Len(p) /\ SubSeq(p, 1, Len(d)) = d

(* The positions of the root list whose walk reaches p. *)
RootsReaching(p) == {i \in DOMAIN directories : Under(p, directories[i])}

SectionsOf(p) == {i \in DOMAIN secs : secs[i].path = p}

Eligible(p) == fs[p].kind = "ok" /\ Decodable(fs[p].bytes)

OutputUnderRoot == RootsReaching(output_path) # {}

(* C1 as stated: after a completed run every readable, decodable file under
   the roots has exactly one section, headed by its base filename, whose
   body is its exact original content followed by one newline. *)
C1_ExactlyOneVerbatimSection ==
  pc = "done" =>
    /\ StreamHolds(disk, SectionTexts(secs))
    /\ \A p \in DataFiles :
         Eligible(p) /\ RootsReaching(p) # {} =>
           /\ Cardinality(SectionsOf(p)) = 1
           /\ \A i \in SectionsOf(p) : secs[i].content = DecodedText(fs[p].bytes)

(* The part of C1 that holds: after a completed run every readable,
   decodable file under the roots has one section for each position of the
   root list whose walk reaches it, and the body is the content as the text
   mode read gives it, \r\n and \r turned into \n. *)
OneSectionPerVisit ==
  pc = "done" =>
    /\ written = Len(secs)
    /\ StreamHolds(disk, SectionTexts(secs))
    /\ \A p \in DataFiles :
         Eligible(p) /\ RootsReaching(p) # {} =>
           /\ Cardinality(SectionsOf(p)) = Cardinality(RootsReaching(p))
           /\ \A i \in SectionsOf(p) :
                secs[i].content = TranslateNewlines(DecodedText(fs[p].bytes))

(* C2 as stated: the only failure that leaves concatenate_files is the
   failure to open the output path; every failure on an entry is skipped. *)
C2_OnlyOutputOpenPropagates ==
  pc = "raised" => err = "OutputOpenError"

(* C3 as stated: every entry read successfully gets its section: between two
   entries and at the end the stream is exactly the sections of the entries
   read so far, each framed as two newlines, "// " and the base filename,
   two newlines, the decoded content, one newline; a closed output file
   holds exactly the stream. *)
C3_SectionFraming ==
  /\ ~InSection => (written = Len(secs) /\ StreamHolds(out, SectionTexts(secs)))
  /\ outfile = "closed" => disk = out

(* The part of C3 that holds: the stream is exactly the sections written in
   full, followed by the written part of the section in progress. *)
FramingOfWrittenSections ==
  /\ StreamHolds(out, SectionTexts(Complete) \o Progress)
  /\ outfile = "closed" => disk = out

(* C4 as stated: once an entry was skipped for a decode error, a permission
   denial or an is-a-directory error, the run is not aborted and every other
   eligible file under the walked roots still gets its section. *)
SkippedSome == \E i \in DOMAIN opened : opened[i] \in DataFiles /\ ReadError(opened[i]) \in Caught

C4_SkipKeepsTheOthers ==
  Terminated /\ SkippedSome =>
    /\ pc = "done"
    /\ \A p \in DataFiles : Eligible(p) /\ RootsReaching(p) # {} => SectionsOf(p) # {}

(* The frame part of C4: the step that skips an entry changes neither the
   stream nor the disk, and the walk goes on. *)
SkipLeavesOutputUntouched ==
  [][(opened' # opened /\ run' = run /\ ReadError(Last(opened')) \in Caught)
       => out' = out /\ disk' = disk /\ secs' = secs /\ pc' = "for_filename"]_vars

(* C5: when the output path cannot be opened the call fails with that error
   and nothing else has happened: no directory scanned, no input opened, no
   section written, no success notification. *)
C5_FatalBeforeAnyScan ==
  /\ (~Openable(output_path) /\ pc # "start") => (pc = "raised" /\ err = "OutputOpenError")
  /\ err = "OutputOpenError" =>
       /\ pc = "raised"
       /\ scanned = << >>
       /\ opened = << >>
       /\ secs = << >>
       /\ out = << >>
       /\ ~printed
       /\ outfile = "notstarted"

C5_Witness == pc = "raised" /\ err = "OutputOpenError" /\ directories # << >>

(* C6: a later run with the same arguments and unchanged inputs ends with
   the same outcome and a byte-identical output file as the run before. *)
C6_RerunIsIdentical ==
  Terminated /\ results # << >> =>
    /\ disk = Last(results).disk
    /\ err = Last(results).err
    /\ printed = Last(results).printed

C6_Witness ==
  /\ run = 2
  /\ pc = "done"
  /\ OutputUnderRoot
  /\ \E i \in SectionsOf(output_path) : secs[i].content # << >>

(* A root that is an empty directory, is missing, or is not a directory. *)
EmptyRoot(d) == d \notin Dirs \/ (DataNames(d) = << >> /\ SubDirs(d) = << >>)

AllRootsEmpty == \A i \in DOMAIN directories : EmptyRoot(directories[i])

(* C7 as stated: with only empty, missing or non-directory roots the walk
   yields no entry, the output is created with zero sections and the run
   reports success. *)
C7_EmptyRootsNoSections ==
  Terminated /\ AllRootsEmpty /\ Openable(output_path) =>
    /\ pc = "done"
    /\ printed
    /\ opened = << >>
    /\ secs = << >>
    /\ disk = << >>

(* The part of C7 that holds: with only empty, missing or non-directory
   roots no directory walk raises, the output is closed, no file but the
   output file itself is opened, and the run reports success unless a write
   to the output or to sys.stdout raised UnicodeEncodeError. *)
EmptyRootsOnlyOwnSections ==
  Terminated /\ AllRootsEmpty /\ Openable(output_path) =>
    /\ outfile = "closed"
    /\ StreamHolds(disk, SectionTexts(Complete))
    /\ \A i \in DOMAIN opened : opened[i] = output_path
    /\ ~OutputUnderRoot => (opened = << >> /\ disk = << >>)
    /\ pc = "raised" => err = "UnicodeEncodeError"
    /\ pc = "done" => printed

(* C8: within a run the output handle only moves from not started to writing
   to closed; the stream changes and directories are scanned only while it
   is open; it is closed exactly once on every exit after a successful open;
   success is printed only after the close and only without an exception. *)
HandleSteps ==
  /\ outfile' # outfile /\ run' = run =>
       <<outfile, outfile'>> \in {<<"notstarted", "writing">>, <<"writing", "closed">>}
  /\ closes' # closes /\ run' = run =>
       (closes' = closes + 1 /\ outfile = "writing" /\ outfile' = "closed")
  /\ outfile' = "closed" /\ outfile = "writing" => closes' = closes + 1
  /\ (out' # out \/ scanned' # scanned \/ opened' # opened) /\ run' = run =>
       (outfile = "writing" /\ (outfile' = "writing" \/ pc' = "raised"))
  /\ printed' /\ ~printed => (outfile = "closed" /\ err = "none" /\ closes = 1)

HandleStates ==
  /\ closes <= 1
  /\ (outfile = "closed") = (closes = 1)
  /\ Terminated /\ err # "OutputOpenError" => (outfile = "closed" /\ closes = 1)
  /\ printed => (pc = "done" /\ err = "none")
  /\ pc = "done" => printed

C8_HandleLifecycle == [][HandleSteps]_vars /\ []HandleStates

C8_Witness ==
  /\ pc = "raised"
  /\ err = "FileNotFoundError"
  /\ closes = 1
  /\ out # << >>
  /\ disk = out

(* C9: sections follow the scan order: the roots of the entries read never
   decrease, within a root the entries follow the order of the walk, the
   stream is the sections written in full one after the other followed by
   the written part of the one in progress, and an entry is opened only when
   the section of every entry read before it is complete. *)
IndexIn(q, e) == IF \E k \in DOMAIN q : q[k] = e THEN CHOOSE k \in DOMAIN q : q[k] = e ELSE 0

WalkPaths(top) ==
  LET walk == Walk(top) IN [i \in DOMAIN walk |-> Join(walk[i].root, walk[i].filename)]

(* The position of each section's file in the walk of the section's root. *)
WalkIndex(sec) ==
  IF sec.root \in DOMAIN directories
    THEN IndexIn(WalkPaths(directories[sec.root]), sec.path)
    ELSE 0

SectionOrder ==
  /\ LET at == [i \in DOMAIN secs |-> WalkIndex(secs[i])] IN
       /\ \A i \in DOMAIN secs : at[i] > 0
       /\ \A i, j \in DOMAIN secs :
            i < j =>
              /\ secs[i].root <= secs[j].root
              /\ secs[i].root = secs[j].root => at[i] < at[j]
  /\ StreamHolds(out, SectionTexts(Complete) \o Progress)
  /\ written <= Len(secs)
  /\ written < Len(secs) =>
       /\ written = Len(secs) - 1
       /\ InSection \/ (pc = "raised" /\ err = "UnicodeEncodeError")

OpenAfterFullSection ==
  opened' # opened /\ run' = run =>
    (~InSection /\ written = Len(secs) /\ StreamHolds(out, SectionTexts(secs)))

C9_SectionsInScanOrder == []SectionOrder /\ [][OpenAfterFullSection]_vars

C9_Witness ==
  /\ pc = "done"
  /\ Len(directories) = 2
  /\ directories[1] # directories[2]
  /\ \E i, j, k \in DOMAIN secs :
       /\ i < j /\ j < k
       /\ secs[i].root = 1 /\ secs[j].root = 1 /\ secs[k].root = 2

(* C10 as stated: an output file that lies under a root is walked like any
   other entry: it is opened for reading while the output handle is open,
   its body is what the disk held of the output at that moment, and a
   section headed by its own base filename is appended for every such
   read. *)
ReadsOwnOutput ==
  (opened' # opened /\ run' = run /\ Last(opened') = output_path) =>
    /\ outfile = "writing"
    /\ outfile' = "writing"
    /\ IsPrefix(disk, out)
    /\ secs' = Append(secs, [root |-> ri, path |-> output_path,
                             content |-> TranslateNewlines(DecodedText(disk))])

OwnSectionPresent ==
  /\ \A i \in SectionsOf(output_path) : (i < Len(secs) \/ ~InSection) => i <= written
  /\ pc = "done" =>
       /\ Cardinality(SectionsOf(output_path)) = Cardinality(RootsReaching(output_path))
       /\ StreamHolds(disk, SectionTexts(secs))

C10_OutputFileIsWalked == [][ReadsOwnOutput]_vars /\ []OwnSectionPresent

====
